---- MODULE Spec2Model ----
(***************************************************************************)
(* Model of the Nexora bot server: the structured-query agent              *)
(* (src/agents/smart_sql_agent.py), the chat-history window, the           *)
(* send_message orchestration and create_project                           *)
(* (src/routes/projectRoutes.py), the scratch files of concurrent          *)
(* requests, and the token cache of src/services/clerkAuth.py.             *)
(*                                                                         *)
(* Texts are TLA+ strings; TLC evaluates Len, \o and SubSeq on them, so    *)
(* Python's "in", lower(), endswith(), split() and replace() are modelled  *)
(* character by character.                                                 *)
(***************************************************************************)
EXTENDS Integers, Sequences, FiniteSets, TLC

VARIABLES
    \* ---- TableLoader (SmartDataAgent.__init__ / _load_data_to_sqlite)
    file_paths,     \* self.file_paths
    schema,         \* self.schema: whether it has a "tables" key, and each TableSpec's table_name in order
    tables,         \* the sqlite store: a set of [name, rows]
    ld_i,           \* index of the next path of the loop at line 33
    loaded,         \* one [path, table_name] per to_sql call (the DEBUG line 63)
    \* ---- execute_and_answer
    ag_pc,          \* position inside execute_and_answer
    filtered_schema,\* the value filter_schema returned
    sql_in_schema,  \* the filtered schema generate_sql was called with
    sql,            \* the cleaned output of generate_sql
    oracle_calls,   \* the oracle calls made so far, in order
    exec_count,     \* number of cursor.execute calls
    query_out,      \* what cursor.execute produced
    ag_result,      \* the value execute_and_answer returned
    \* ---- message store and get_chat_history
    messages,       \* rows of the "messages" table
    clock,          \* created_at of the next inserted row
    chat_history,   \* the value get_chat_history returned
    hist_args,      \* the arguments of that call
    \* ---- send_message
    pc,             \* position inside send_message
    question,       \* message.content
    current_message_id,
    project_docs,   \* completed documents of the project, in order
    downloads,      \* s3 keys downloaded so far, in order
    csv_response_text,
    rag_response_text,
    rag_raw,        \* rag_response_text as step 4 left it (before suppression)
    agent_type,     \* the agent variant step 4 selected
    rag_invoked,    \* whether an unstructured agent was invoked, and with what
    rag_result,     \* the value agent.invoke returned
    failures,       \* the failures that occurred during the request
    citations,
    final_response,
    abort_cause,    \* why the request ended in an error response
    http_status,
    \* ---- scratch files of concurrent send_message requests
    disk,           \* the content at each local path of /tmp ("" when there is none)
    rq_pc,          \* position of each request inside step 3
    rq_docs,        \* project_docs as each request fetched them
    schema_path,    \* each request's schema_path
    local_csv_paths,\* each request's local_csv_paths
    rq_downloaded,  \* what each request downloaded: [path, content] in order
    rq_loaded,      \* what each request's agent read: [path, content] in order
    \* ---- create_project
    projects,       \* rows of the "projects" table
    project_settings, \* rows of the "project_settings" table
    cp_pc,          \* position inside create_project
    project_data,   \* the request body
    newly_created_project, \* the row the insert returned (id 0 before it)
    cp_response,    \* what create_project returned or raised
    next_project_id,\* the id the store gives the next project row
    \* ---- get_current_user_clerk_id
    token_cache,    \* the module-level dict, as a set of [token, clerk_id, timestamp]
    now,            \* time.time()
    au_pc,          \* position of each call
    au_cached,      \* each call's (cached_clerk_id, timestamp) as read at line 32
    au_result,      \* what each call returned or raised
    au_calls        \* number of calls each thread has started

vars_loader == <<file_paths, schema, tables, ld_i, loaded>>
vars_agent  == <<ag_pc, filtered_schema, sql_in_schema, sql, oracle_calls, exec_count, query_out, ag_result>>
vars_store  == <<messages, clock, chat_history, hist_args>>
vars_send   == <<pc, question, current_message_id, project_docs, downloads, csv_response_text,
                 rag_response_text, rag_raw, agent_type, rag_invoked, rag_result, failures,
                 citations, final_response, abort_cause, http_status>>
vars_scratch == <<disk, rq_pc, rq_docs, schema_path, local_csv_paths, rq_downloaded, rq_loaded>>
vars_create == <<projects, project_settings, cp_pc, project_data, newly_created_project,
                 cp_response, next_project_id>>
vars_auth   == <<token_cache, now, au_pc, au_cached, au_result, au_calls>>
vars_core   == <<vars_loader, vars_agent, vars_store, vars_send>>
vars_aux    == <<vars_scratch, vars_create, vars_auth>>
vars == <<vars_core, vars_aux>>

\* ---------------------------------------------------------------- bounds
MaxFiles == 2
MaxTables == 2

\* ---------------------------------------------------------------- strings
UpperAlpha == "ABCDEFGHIJKLMNOPQRSTUVWXYZ"
LowerAlpha == "abcdefghijklmnopqrstuvwxyz"

Ch(s, i) == SubSeq(s, i, i)

\* the lowercase letter of each capital
LowerOf == [c \in {Ch(UpperAlpha, i) : i \in 1..Len(UpperAlpha)} |->
               Ch(LowerAlpha, CHOOSE i \in 1..Len(UpperAlpha) : Ch(UpperAlpha, i) = c)]

\* str.lower() of one character
LowerCh(c) == IF c \in DOMAIN LowerOf THEN LowerOf[c] ELSE c

RECURSIVE Lower(_)
Lower(s) == IF Len(s) = 0 THEN "" ELSE LowerCh(Ch(s, 1)) \o Lower(SubSeq(s, 2, Len(s)))

\* Python's "p in s"
Contains(s, p) == \E i \in 1..(Len(s) - Len(p) + 1) : SubSeq(s, i, i + Len(p) - 1) = p

\* s.endswith(suf)
EndsWith(s, suf) == Len(s) >= Len(suf) /\ SubSeq(s, Len(s) - Len(suf) + 1, Len(s)) = suf

StartsWith(s, pre) == Len(s) >= Len(pre) /\ SubSeq(s, 1, Len(pre)) = pre

\* s.split(c)[-1]: what follows the last occurrence of the character c
SplitLast(s, c) ==
    LET at == {i \in 1..Len(s) : Ch(s, i) = c}
    IN  IF at = {} THEN s
        ELSE SubSeq(s, (CHOOSE i \in at : \A j \in at : j <= i) + 1, Len(s))

\* s.split(c)[0]: what precedes the first occurrence of the character c
SplitFirst(s, c) ==
    LET at == {i \in 1..Len(s) : Ch(s, i) = c}
    IN  IF at = {} THEN s
        ELSE SubSeq(s, 1, (CHOOSE i \in at : \A j \in at : i <= j) - 1)

\* sep.join(parts)
RECURSIVE Join(_, _)
Join(parts, sep) ==
    IF Len(parts) = 0 THEN ""
    ELSE IF Len(parts) = 1 THEN parts[1]
    ELSE parts[1] \o sep \o Join(Tail(parts), sep)

\* c * n
RECURSIVE Repeat(_, _)
Repeat(c, n) == IF n <= 0 THEN "" ELSE c \o Repeat(c, n - 1)

\* all sequences over S of length 0..n
SeqsUpTo(S, n) == UNION {[1..k -> S] : k \in 0..n}

\* ---------------------------------------------------------------- TableLoader
\* a schema document without a "tables" key (or an empty one): line 48 is false
NoTablesKey == [has_tables |-> FALSE, tables |-> <<>>]

\* self.schema where the schema document is not an input
AgentSchema == [has_tables |-> TRUE, tables |-> <<"movie", "Rating">>]

ScratchDir == "/tmp/csv_agent/p1/"

\* local paths the orchestrator hands to the agent: os.path.join(temp_dir, fname)
Paths == { ScratchDir \o "final_movies.csv",
           ScratchDir \o "unknown_data.csv",
           ScratchDir \o "Rating.xlsx",
           ScratchDir \o "movie.xls",
           ScratchDir \o "My.Data.csv",
           ScratchDir \o "notes.txt" }

\* table_name values of a schema document
TableNames == { "movie", "Rating", "movies_final_2024", "" }

Schemas == {NoTablesKey} \cup
           {[has_tables |-> TRUE, tables |-> t] : t \in SeqsUpTo(TableNames, MaxTables)}

\* pd.read_csv / pd.read_excel: the rows of the file at a path
ReadFile(path) == << path \o "#row1", path \o "#row2" >>

\* lines 35-40: the loader's own extension test (case-sensitive)
LoaderAccepts(path) ==
    EndsWith(path, ".csv") \/ EndsWith(path, ".xlsx") \/ EndsWith(path, ".xls")

\* line 44
SimpleFilename(path) == Lower(SplitFirst(SplitLast(SplitLast(path, "/"), "\\"), "."))

\* line 53
NameMatches(schema_name, simple_filename) ==
    Contains(simple_filename, schema_name) \/ Contains(schema_name, simple_filename)

\* lines 47-55: the scan with its break; matched is FALSE while matched_table_name is None
RECURSIVE ScanTables(_, _, _)
ScanTables(tbls, k, simple_filename) ==
    IF k > Len(tbls) THEN [matched |-> FALSE, name |-> ""]
    ELSE LET schema_name == Lower(tbls[k])
         IN  IF NameMatches(schema_name, simple_filename)
             THEN [matched |-> TRUE, name |-> schema_name]
             ELSE ScanTables(tbls, k + 1, simple_filename)

\* lines 47-61: "if matched_table_name" is Python truthiness: None and "" are both false
ResolveTableName(sch, path) ==
    LET simple_filename == SimpleFilename(path)
        scan == IF sch.has_tables THEN ScanTables(sch.tables, 1, simple_filename)
                ELSE [matched |-> FALSE, name |-> ""]
    IN  IF scan.matched /\ scan.name # "" THEN scan.name ELSE simple_filename

\* a plausible slip: to_sql with if_exists='append'
ToSqlAppend(store, table_name, df) ==
    IF \E t \in store : t.name = table_name
    THEN {IF t.name = table_name THEN [t EXCEPT !.rows = t.rows \o df] ELSE t : t \in store}
    ELSE store \cup {[name |-> table_name, rows |-> df]}

\* line 64: df.to_sql(table_name, conn, if_exists='replace')
ToSql(store, table_name, df) ==
    {t \in store : t.name # table_name} \cup {[name |-> table_name, rows |-> df]}

\* one iteration of the loop at line 33, on the store
LoadOne(store, sch, path) ==
    IF LoaderAccepts(path)
    THEN ToSql(store, ResolveTableName(sch, path), ReadFile(path))
    ELSE store

InitLoaderVars ==
    /\ file_paths = <<>>
    /\ schema = AgentSchema
    /\ tables = {}
    /\ ld_i = 1
    /\ loaded = <<>>

\* one iteration of the loop at line 33
LoadFile ==
    /\ ld_i <= Len(file_paths)
    /\ LET path == file_paths[ld_i]
       IN  /\ tables' = LoadOne(tables, schema, path)
           /\ loaded' = IF LoaderAccepts(path)
                        THEN Append(loaded, [path |-> path,
                                             simple_filename |-> SimpleFilename(path),
                                             table_name |-> ResolveTableName(schema, path)])
                        ELSE loaded
    /\ ld_i' = ld_i + 1
    /\ UNCHANGED <<file_paths, schema>>
    /\ UNCHANGED <<vars_agent, vars_store, vars_send>>
    /\ UNCHANGED vars_aux

\* SmartDataAgent(file_paths, schema_json_path): the inputs of one construction
InitLoader ==
    /\ file_paths \in SeqsUpTo(Paths, MaxFiles)
    /\ schema \in Schemas
    /\ tables = {}
    /\ ld_i = 1
    /\ loaded = <<>>

\* ---------------------------------------------------------------- execute_and_answer
\* s.replace(old, ""), old not empty: left to right, non-overlapping
RECURSIVE RemoveAll(_, _)
RemoveAll(s, old) ==
    IF Len(s) < Len(old) THEN s
    ELSE IF StartsWith(s, old) THEN RemoveAll(SubSeq(s, Len(old) + 1, Len(s)), old)
    ELSE Ch(s, 1) \o RemoveAll(SubSeq(s, 2, Len(s)), old)

Whitespace == {" ", "\n", "\t", "\r"}

RECURSIVE LStrip(_)
LStrip(s) == IF Len(s) > 0 /\ Ch(s, 1) \in Whitespace THEN LStrip(SubSeq(s, 2, Len(s))) ELSE s

RECURSIVE RStrip(_)
RStrip(s) ==
    IF Len(s) > 0 /\ Ch(s, Len(s)) \in Whitespace THEN RStrip(SubSeq(s, 1, Len(s) - 1)) ELSE s

\* s.strip()
Strip(s) == RStrip(LStrip(s))

\* Python's backquote character, which a TLA+ string cannot hold, is written as '
BQ == "'"
FENCE == BQ \o BQ \o BQ

\* line 134: the cleanup of the oracle's output
CleanSql(raw) == Strip(RemoveAll(RemoveAll(raw, FENCE \o "sql"), FENCE))

SENTINEL == "NO_SQL_POSSIBLE"

\* a plausible slip: an exact match instead of the substring test
IsSentinelExact(q) == q = SENTINEL

\* line 148
IsSentinel(q) == Contains(q, SENTINEL)

\* line 150
APOLOGY == "I apologize, but I could not generate a valid SQL query to answer your question based on the provided schema/data. The question might clearly require information not present in the tables."

\* lines 149-153
ApologyResult(q) == [kind |-> "dict", answer |-> APOLOGY, sql |-> q, data |-> <<>>]

\* line 188
ErrorResult(msg) ==
    [kind |-> "str", text |-> "Error executing SQL or processing request: " \o msg]

\* what JsonOutputParser raises on an output that is not JSON (line 107)
ParseError == "Invalid json output"

\* values of a result row
IntVal(n) == [type |-> "int", i |-> n, s |-> ""]
TextVal(t) == [type |-> "text", i |-> 0, s |-> t]
NullVal == [type |-> "null", i |-> 0, s |-> ""]

Digits == "0123456789"

RECURSIVE NatToStr(_)
NatToStr(n) ==
    IF n < 10 THEN Ch(Digits, n + 1) ELSE NatToStr(n \div 10) \o Ch(Digits, (n % 10) + 1)

\* str(val), line 178
Str(val) ==
    CASE val.type = "int" -> IF val.i < 0 THEN "-" \o NatToStr(-val.i) ELSE NatToStr(val.i)
      [] val.type = "text" -> val.s
      [] val.type = "null" -> "None"

\* d[k] = v on a dict kept as its items in insertion order
DictSet(d, k, v) ==
    IF \E i \in DOMAIN d : d[i].key = k
    THEN [i \in DOMAIN d |-> IF d[i].key = k THEN [key |-> k, val |-> v] ELSE d[i]]
    ELSE Append(d, [key |-> k, val |-> v])

\* dict(zip(columns, row)), line 161
RECURSIVE DictZipFrom(_, _, _, _)
DictZipFrom(d, columns, row, i) ==
    IF i > Len(columns) \/ i > Len(row) THEN d
    ELSE DictZipFrom(DictSet(d, columns[i], row[i]), columns, row, i + 1)

DictZip(columns, row) == DictZipFrom(<<>>, columns, row, 1)

DictKeys(d) == [i \in DOMAIN d |-> d[i].key]
DictValues(d) == [i \in DOMAIN d |-> d[i].val]

RECURSIVE SumLen(_)
SumLen(strs) == IF Len(strs) = 0 THEN 0 ELSE Len(strs[1]) + SumLen(Tail(strs))

\* lines 158-164: data_result from what cursor.execute produced
DataResult(qout) ==
    IF qout.kind = "rows"
    THEN [r \in DOMAIN qout.rows |-> DictZip(qout.columns, qout.rows[r])]
    ELSE <<>>

\* lines 167-180
TextTable(data_result) ==
    IF data_result = <<>> THEN ""
    ELSE LET headers == DictKeys(data_result[1])
             lines == << Join(headers, " | "),
                         Repeat("-", SumLen(headers) + 3 * (Len(headers) - 1)) >>
                      \o [r \in DOMAIN data_result |->
                            Join([c \in DOMAIN data_result[r] |->
                                     Str(DictValues(data_result[r])[c])], " | ")]
         IN  Join(lines, "\n")

\* lines 182-186
AnswerResult(q, qout) ==
    LET data_result == DataResult(qout)
    IN  [kind |-> "dict",
         answer |-> "Executed SQL: " \o BQ \o q \o BQ \o "\n\n" \o TextTable(data_result),
         sql |-> q,
         data |-> data_result]

\* what the SchemaFilter oracle may return once parsed
FilterOutputs == { AgentSchema,
                   [has_tables |-> TRUE, tables |-> <<"movie">>],
                   NoTablesKey }

\* what the SQLSynthesizer oracle may return, before the cleanup
RawSqlOutputs == { "SELECT * FROM movie, rating",
                   FENCE \o "sql\nSELECT * FROM movie, rating\n" \o FENCE,
                   "NO_SQL_POSSIBLE",
                   " NO_SQL_POSSIBLE\n",
                   FENCE \o "\nNO_SQL_POSSIBLE\n" \o FENCE,
                   "Sorry: NO_SQL_POSSIBLE for this schema",
                   "NO_SQL_" \o FENCE \o FENCE \o "POSSIBLE",
                   "no_sql_possible",
                   "NO_SQL POSSIBLE",
                   "" }

MaxCols == 2
MaxRows == 2

ColumnNames == {"a", "id"}
Values == {IntVal(42), NullVal}

\* what cursor.execute may produce: an error, no description, or columns and rows
QueryOutcomes ==
    {[kind |-> "error"], [kind |-> "nodesc"]} \cup
    UNION { {[kind |-> "rows", columns |-> c, rows |-> r] :
                r \in SeqsUpTo([1..Len(c) -> Values], MaxRows)} :
            c \in UNION {[1..n -> ColumnNames] : n \in 1..MaxCols} }

\* line 157: sqlite on the statements above. An empty statement runs and has no
\* description; a SELECT fails or yields columns and rows; anything else is a syntax error
DbOutcomes(q) ==
    IF q = "" THEN {[kind |-> "nodesc"]}
    ELSE IF StartsWith(q, "SELECT") THEN QueryOutcomes \ {[kind |-> "nodesc"]}
    ELSE {[kind |-> "error"]}

\* line 141: filter_schema returns, or raises (the oracle fails, or its output does not parse)
FilterSchema ==
    /\ ag_pc = "start"
    /\ oracle_calls' = Append(oracle_calls, [op |-> "filter_schema", schema |-> schema])
    /\ \/ \E out \in FilterOutputs :
            /\ filtered_schema' = out
            /\ ag_pc' = "filtered"
            /\ UNCHANGED ag_result
       \/ \E msg \in {ParseError, "Connection error."} :
            /\ ag_result' = ErrorResult(msg)
            /\ ag_pc' = "returned"
            /\ UNCHANGED filtered_schema
    /\ UNCHANGED <<sql_in_schema, sql, exec_count, query_out>>
    /\ UNCHANGED <<vars_loader, vars_store, vars_send>>
    /\ UNCHANGED vars_aux

\* a plausible slip: generate_sql is given self.schema, not the filtered schema
GenerateSqlOnFullSchema ==
    /\ ag_pc = "filtered"
    /\ oracle_calls' = Append(oracle_calls, [op |-> "generate_sql", schema |-> schema])
    /\ sql_in_schema' = schema
    /\ \/ \E raw \in RawSqlOutputs :
            /\ sql' = CleanSql(raw)
            /\ ag_pc' = "generated"
            /\ UNCHANGED ag_result
       \/ /\ ag_result' = ErrorResult("Connection error.")
          /\ ag_pc' = "returned"
          /\ UNCHANGED sql
    /\ UNCHANGED <<filtered_schema, exec_count, query_out>>
    /\ UNCHANGED <<vars_loader, vars_store, vars_send>>
    /\ UNCHANGED vars_aux

\* line 145: generate_sql returns the cleaned output, or raises
GenerateSql ==
    /\ ag_pc = "filtered"
    /\ oracle_calls' = Append(oracle_calls, [op |-> "generate_sql", schema |-> filtered_schema])
    /\ sql_in_schema' = filtered_schema
    /\ \/ \E raw \in RawSqlOutputs :
            /\ sql' = CleanSql(raw)
            /\ ag_pc' = "generated"
            /\ UNCHANGED ag_result
       \/ /\ ag_result' = ErrorResult("Connection error.")
          /\ ag_pc' = "returned"
          /\ UNCHANGED sql
    /\ UNCHANGED <<filtered_schema, exec_count, query_out>>
    /\ UNCHANGED <<vars_loader, vars_store, vars_send>>
    /\ UNCHANGED vars_aux

\* lines 148-153
SentinelReturn ==
    /\ ag_pc = "generated"
    /\ IsSentinel(sql)
    /\ ag_result' = ApologyResult(sql)
    /\ ag_pc' = "returned"
    /\ UNCHANGED <<filtered_schema, sql_in_schema, sql, oracle_calls, exec_count, query_out>>
    /\ UNCHANGED <<vars_loader, vars_store, vars_send>>
    /\ UNCHANGED vars_aux

\* lines 155-188: execute, format and return
ExecuteQuery ==
    /\ ag_pc = "generated"
    /\ ~IsSentinel(sql)
    /\ exec_count' = exec_count + 1
    /\ \E qout \in DbOutcomes(sql) :
          /\ query_out' = qout
          /\ ag_result' = IF qout.kind = "error"
                          THEN ErrorResult("no such table: movie")
                          ELSE AnswerResult(sql, qout)
    /\ ag_pc' = "returned"
    /\ UNCHANGED <<filtered_schema, sql_in_schema, sql, oracle_calls>>
    /\ UNCHANGED <<vars_loader, vars_store, vars_send>>
    /\ UNCHANGED vars_aux

\* ---------------------------------------------------------------- message store
CHAT == "chat-1"
OTHER_CHAT == "chat-2"

\* supabase.table("messages").insert(...).execute(): the store assigns id and created_at
InsertRow(msgs, at, chat_id, role, content, cites) ==
    msgs \cup {[id |-> at, created_at |-> at, chat_id |-> chat_id, role |-> role,
                content |-> content, citations |-> cites]}

\* .order("created_at", desc=False)
RECURSIVE OrderByCreatedAt(_)
OrderByCreatedAt(rows) ==
    IF rows = {} THEN <<>>
    ELSE LET first == CHOOSE m \in rows : \A o \in rows : m.created_at <= o.created_at
         IN  <<first>> \o OrderByCreatedAt(rows \ {first})

\* lines 423-434: the query; exclude_message_id 0 stands for None (no id is 0)
HistoryQuery(msgs, chat_id, exclude_message_id) ==
    OrderByCreatedAt({m \in msgs :
        /\ m.chat_id = chat_id
        /\ (exclude_message_id # 0 => m.id # exclude_message_id)})

HISTORY_WINDOW == 10

\* a plausible slip: data[:10], the oldest ten
OldestMessages(data) ==
    IF Len(data) <= HISTORY_WINDOW THEN data ELSE SubSeq(data, 1, HISTORY_WINDOW)

\* line 440: data[-10:]
RecentMessages(data) ==
    IF Len(data) <= HISTORY_WINDOW THEN data
    ELSE SubSeq(data, Len(data) - HISTORY_WINDOW + 1, Len(data))

\* lines 443-448
FormatHistory(recent_messages) ==
    [i \in DOMAIN recent_messages |->
        [role |-> recent_messages[i].role, content |-> recent_messages[i].content]]

\* a plausible slip: no handler around the retrieval, whose failure is then not seen
GetChatHistoryIgnoringFailure(msgs, chat_id, exclude_message_id, ok) ==
    FormatHistory(RecentMessages(HistoryQuery(msgs, chat_id, exclude_message_id)))

\* get_chat_history, lines 408-453; ok is whether the retrieval succeeded
GetChatHistory(msgs, chat_id, exclude_message_id, ok) ==
    IF ~ok THEN <<>>
    ELSE FormatHistory(RecentMessages(HistoryQuery(msgs, chat_id, exclude_message_id)))

PreMsgs == 8
MaxNew == 4

\* a chat in progress: PreMsgs messages, user and assistant in turn
PriorChat(n) ==
    {[id |-> k, created_at |-> k, chat_id |-> CHAT,
      role |-> IF k % 2 = 1 THEN "user" ELSE "assistant",
      content |-> "message " \o NatToStr(k), citations |-> <<>>] : k \in 1..n}

\* a row is inserted into the messages table (lines 480-482, 640-642)
InsertMessage ==
    /\ ~hist_args.called
    /\ clock <= PreMsgs + MaxNew
    /\ \E chat_id \in {CHAT, OTHER_CHAT}, role \in {"user", "assistant"} :
          messages' = InsertRow(messages, clock, chat_id, role,
                                "message " \o NatToStr(clock), <<>>)
    /\ clock' = clock + 1
    /\ UNCHANGED <<chat_history, hist_args>>
    /\ UNCHANGED <<vars_loader, vars_agent, vars_send>>
    /\ UNCHANGED vars_aux

\* get_chat_history(chat_id, exclude_message_id) is called and returns
CallGetChatHistory ==
    /\ ~hist_args.called
    /\ \E chat_id \in {CHAT, OTHER_CHAT}, excl \in {0} \cup {m.id : m \in messages},
          ok \in BOOLEAN :
          /\ chat_history' = GetChatHistory(messages, chat_id, excl, ok)
          /\ hist_args' = [called |-> TRUE, chat_id |-> chat_id,
                           exclude_message_id |-> excl, ok |-> ok]
    /\ UNCHANGED <<messages, clock>>
    /\ UNCHANGED <<vars_loader, vars_agent, vars_send>>
    /\ UNCHANGED vars_aux

\* ---------------------------------------------------------------- send_message
PROJECT == "p1"
QUESTION == "How many movies are rated above 8?"

Doc(fname) == [filename |-> fname, s3_key |-> "projects/" \o PROJECT \o "/" \o fname]

\* line 489: the completed documents a project may have, in the order the store returns them
ProjectDocChoices ==
    { <<>>,
      << Doc("report.pdf") >>,
      << Doc("final_movies.csv") >>,
      << Doc("schema.json"), Doc("final_movies.csv") >>,
      << Doc("final_movies.csv"), Doc("report.pdf"), Doc("Rating.XLSX"),
         Doc("Schema.JSON"), Doc("old_schema.json") >> }

\* line 496-497
IsStructuredDoc(doc) ==
    LET fname == Lower(doc.filename)
    IN  EndsWith(fname, ".csv") \/ EndsWith(fname, ".xlsx") \/ EndsWith(fname, ".xls")

\* a plausible slip: the extension tested on the filename as it is
IsSchemaDocCaseSensitive(doc) == EndsWith(doc.filename, ".json")

\* line 513
IsSchemaDoc(doc) == EndsWith(Lower(doc.filename), ".json")

\* lines 492-500
StructuredFiles(docs) == SelectSeq(docs, IsStructuredDoc)
UnstructuredFiles(docs) == SelectSeq(docs, LAMBDA d : ~IsStructuredDoc(d))

\* lines 516-518 and 531-538: os.path.join(temp_dir, fname)
SchemaLocalPath(doc) == "/tmp/schema_agent/" \o PROJECT \o "/" \o doc.filename
CsvLocalPath(doc) == "/tmp/csv_agent/" \o PROJECT \o "/" \o doc.filename

\* line 559
NOTICE == "[Notice: Structured files found but no JSON schema file was detected. Please upload a .json schema file to process the data.]"

\* line 557
BranchErrorText(msg) == "[Error analyzing structured data: " \o msg \o "]"

\* what s3_client.download_file raises on a missing object (lines 522, 541)
DownloadError == "An error occurred (404) when calling the HeadObject operation: Not Found"

\* lines 550-553
AnswerText(result) == IF result.kind = "dict" THEN result.answer ELSE result.text

\* the loop at line 33 over all paths, on the store
RECURSIVE LoadAll(_, _, _)
LoadAll(store, sch, paths) ==
    IF paths = <<>> THEN store
    ELSE LoadAll(LoadOne(store, sch, Head(paths)), sch, Tail(paths))

\* the to_sql calls of that loop, in order
RECURSIVE LoadedAll(_, _)
LoadedAll(sch, paths) ==
    IF paths = <<>> THEN <<>>
    ELSE (IF LoaderAccepts(Head(paths))
          THEN << [path |-> Head(paths), simple_filename |-> SimpleFilename(Head(paths)),
                   table_name |-> ResolveTableName(sch, Head(paths))] >>
          ELSE <<>>) \o LoadedAll(sch, Tail(paths))

\* the oracle and store outcomes send_message is explored with
SendFilterOutputs == { [has_tables |-> TRUE, tables |-> <<"movie">>] }
SendRawSqlOutputs == { "SELECT * FROM movie, rating", "Sorry: NO_SQL_POSSIBLE for this schema" }
SendQueryOutcomes ==
    { [kind |-> "error"],
      [kind |-> "rows", columns |-> <<"a", "id">>, rows |-> <<>>],
      [kind |-> "rows", columns |-> <<"a", "id">>, rows |-> << <<IntVal(42), NullVal>> >>] }

\* execute_and_answer, lines 136-188, as the set of its complete runs: the state the
\* agent is left in for each outcome of the two oracle calls and of the query
AgentRuns(sch, filter_outputs, raw_outputs, query_outcomes) ==
    LET filter_call == [op |-> "filter_schema", schema |-> sch]
        base == [filtered_schema |-> NoTablesKey, sql_in_schema |-> NoTablesKey, sql |-> "",
                 oracle_calls |-> <<filter_call>>, exec_count |-> 0,
                 query_out |-> [kind |-> "none"], ag_result |-> [kind |-> "none"]]
        gen_call(fs) == [op |-> "generate_sql", schema |-> fs]
        after_filter(fs) == [base EXCEPT !.filtered_schema = fs, !.sql_in_schema = fs,
                                         !.oracle_calls = <<filter_call, gen_call(fs)>>]
    IN  {[base EXCEPT !.ag_result = ErrorResult(msg)] :
            msg \in {ParseError, "Connection error."}}
        \cup {[after_filter(fs) EXCEPT !.ag_result = ErrorResult("Connection error.")] :
                fs \in filter_outputs}
        \cup UNION { UNION {
               LET q == CleanSql(raw)
               IN  IF IsSentinel(q)
                   THEN {[after_filter(fs) EXCEPT !.sql = q, !.ag_result = ApologyResult(q)]}
                   ELSE {[after_filter(fs) EXCEPT
                             !.sql = q, !.exec_count = 1, !.query_out = qout,
                             !.ag_result = IF qout.kind = "error"
                                           THEN ErrorResult("no such table: movie")
                                           ELSE AnswerResult(q, qout)] :
                          qout \in DbOutcomes(q) \cap query_outcomes}
               : raw \in raw_outputs } : fs \in filter_outputs }

\* the failures a run of the agent ended in
AgentFailures(run) ==
    IF run.ag_result.kind # "str" THEN {}
    ELSE IF run.exec_count > 0 THEN {"query"} ELSE {"oracle"}

\* index of the first schema document, 0 when there is none (lines 512-513)
FirstSchemaDoc(docs) ==
    IF \E i \in DOMAIN docs : IsSchemaDoc(docs[i])
    THEN CHOOSE i \in DOMAIN docs : IsSchemaDoc(docs[i]) /\ \A j \in 1..(i - 1) : ~IsSchemaDoc(docs[j])
    ELSE 0

Attempt(doc, ok) == [s3_key |-> doc.s3_key, ok |-> ok]

\* what the structured branch leaves untouched when it does not reach the agent
NoAgent ==
    [file_paths |-> <<>>, schema |-> AgentSchema, tables |-> {}, ld_i |-> 1, loaded |-> <<>>,
     ag_pc |-> "idle", run |-> [filtered_schema |-> NoTablesKey, sql_in_schema |-> NoTablesKey,
                                sql |-> "", oracle_calls |-> <<>>, exec_count |-> 0,
                                query_out |-> [kind |-> "none"], ag_result |-> [kind |-> "none"]]]

\* step 3, lines 506-559: every way the structured branch can end
StructuredOutcomes(docs) ==
    LET structured_files == StructuredFiles(docs)
        k == FirstSchemaDoc(docs)
        stop(text, dls, fails) ==
            [csv |-> text, downloads |-> dls, failures |-> fails, agent |-> NoAgent]
    IN  IF structured_files = <<>> THEN { stop("", <<>>, {}) }
        ELSE IF k = 0 THEN { stop(NOTICE, <<>>, {}) }
        ELSE
          \* the schema download fails: schema_path stays None (lines 524-525)
          { stop(NOTICE, <<Attempt(docs[k], FALSE)>>, {"schema_download"}) }
          \cup
          \* the download of structured file n fails (line 541), caught at line 555
          { stop(BranchErrorText(DownloadError),
                 <<Attempt(docs[k], TRUE)>>
                   \o [i \in 1..n |-> Attempt(structured_files[i], i < n)],
                 {"file_download"}) : n \in DOMAIN structured_files }
          \cup
          LET all == <<Attempt(docs[k], TRUE)>>
                     \o [i \in DOMAIN structured_files |-> Attempt(structured_files[i], TRUE)]
              paths == [i \in DOMAIN structured_files |-> CsvLocalPath(structured_files[i])]
          IN  \* json.load fails in the constructor (lines 24-25)
              { stop(BranchErrorText("Expecting value: line 1 column 1 (char 0)"),
                     all, {"schema_load"}) }
              \cup
              { [csv |-> AnswerText(run.ag_result),
                 downloads |-> all,
                 failures |-> AgentFailures(run),
                 agent |-> [file_paths |-> paths, schema |-> AgentSchema,
                            tables |-> LoadAll({}, AgentSchema, paths),
                            ld_i |-> Len(paths) + 1,
                            loaded |-> LoadedAll(AgentSchema, paths),
                            ag_pc |-> "returned", run |-> run]] :
                run \in AgentRuns(AgentSchema, SendFilterOutputs, SendRawSqlOutputs,
                                  SendQueryOutcomes) }

\* lines 608-617
GenericPhrases ==
    { "project documents do not contain",
      "i searched available resources but found no",
      "information not present",
      "to find this information, you would typically",
      "you would typically need to query",
      "no relevant chunks found",
      "analysis from structured data",
      "executed sql" }

PLACEHOLDER == "No relevant chunks found"

\* a plausible slip: the phrases tested against the text as it is, not lowercased
SuppressCaseSensitive(text) ==
    IF text # "" /\ \E phrase \in GenericPhrases : Contains(text, phrase)
    THEN PLACEHOLDER ELSE text

\* lines 605-620
Suppress(text) ==
    IF text # "" /\ \E phrase \in GenericPhrases : Contains(Lower(text), phrase)
    THEN PLACEHOLDER ELSE text

FALLBACK == "I searched available resources but found no relevant information or experienced an error."

\* a plausible slip: the structured answer alone whenever there is one
MergeStructuredFirst(csv, rag) ==
    IF csv # "" THEN csv
    ELSE IF rag # "" THEN rag
    ELSE FALLBACK

\* lines 622-629
Merge(csv, rag) ==
    IF csv # "" /\ rag # ""
    THEN "**Analysis from Structured Data:**\n" \o csv
         \o "\n\n**Analysis from Documents:**\n" \o rag
    ELSE IF csv # "" THEN csv
    ELSE IF rag # "" THEN rag
    ELSE FALLBACK

\* what the unstructured agent may answer
RagAnswers ==
    { "",
      "Revenue grew 12% in 2023 according to the annual report.",
      "I searched available resources but found no relevant information.",
      "The Project Documents do not contain the rating of any movie.",
      "INFORMATION NOT PRESENT",
      "No relevant chunks found",
      "Executed SQL: SELECT 1",
      "That information is not present in the report." }

\* the citations the agent's result may carry; has_citations is whether the key is there
RagCitations ==
    { [has_citations |-> FALSE, citations |-> <<>>],
      [has_citations |-> TRUE, citations |-> <<>>],
      [has_citations |-> TRUE, citations |-> <<"report.pdf#p2">>],
      [has_citations |-> TRUE, citations |-> <<"report.pdf#p2", "notes.md#p1">>] }

\* a plausible slip: the citations of the result are dropped
ResultCitationsDropped(result) == <<>>

\* line 598: result.get("citations", [])
ResultCitations(result) == IF result.has_citations THEN result.citations ELSE <<>>

\* lines 654-661: the request ends in an error response
Abort(cause, status) ==
    /\ pc' = "error"
    /\ abort_cause' = cause
    /\ http_status' = status

\* a plausible slip: no test of the insert's result (line 483)
InsertUserMessageUnchecked ==
    /\ pc = "start"
    /\ \/ /\ messages' = InsertRow(messages, clock, CHAT, "user", question, <<>>)
          /\ clock' = clock + 1
          /\ current_message_id' = clock
       \/ UNCHANGED <<messages, clock, current_message_id>>
    /\ pc' = "inserted"
    /\ UNCHANGED <<chat_history, hist_args>>
    /\ UNCHANGED <<question, project_docs, downloads, csv_response_text, rag_response_text,
                   rag_raw, agent_type, rag_invoked, rag_result, failures, citations,
                   final_response, abort_cause, http_status>>
    /\ UNCHANGED <<vars_loader, vars_agent>>
    /\ UNCHANGED vars_aux

\* step 1, lines 472-486
InsertUserMessage ==
    /\ pc = "start"
    /\ \/ /\ messages' = InsertRow(messages, clock, CHAT, "user", question, <<>>)
          /\ clock' = clock + 1
          /\ current_message_id' = clock
          /\ pc' = "inserted"
          /\ UNCHANGED <<abort_cause, http_status>>
       \/ \* the insert returns no data (line 483) or raises (line 657)
          /\ \E status \in {422, 500} : Abort("user_insert", status)
          /\ UNCHANGED <<messages, clock, current_message_id>>
    /\ UNCHANGED <<chat_history, hist_args>>
    /\ UNCHANGED <<question, project_docs, downloads, csv_response_text, rag_response_text,
                   rag_raw, agent_type, rag_invoked, rag_result, failures, citations,
                   final_response>>
    /\ UNCHANGED <<vars_loader, vars_agent>>
    /\ UNCHANGED vars_aux

\* step 2, lines 488-504
FetchDocuments ==
    /\ pc = "inserted"
    /\ \/ /\ project_docs' \in ProjectDocChoices
          /\ pc' = "classified"
          /\ UNCHANGED <<abort_cause, http_status>>
       \/ /\ Abort("documents_fetch", 500)
          /\ UNCHANGED project_docs
    /\ UNCHANGED <<question, current_message_id, downloads, csv_response_text,
                   rag_response_text, rag_raw, agent_type, rag_invoked, rag_result, failures,
                   citations, final_response>>
    /\ UNCHANGED <<vars_loader, vars_agent, vars_store>>
    /\ UNCHANGED vars_aux

\* step 3, lines 506-559
StructuredBranch ==
    /\ pc = "classified"
    /\ \E o \in StructuredOutcomes(project_docs) :
          /\ csv_response_text' = o.csv
          /\ downloads' = o.downloads
          /\ failures' = failures \cup o.failures
          /\ file_paths' = o.agent.file_paths
          /\ schema' = o.agent.schema
          /\ tables' = o.agent.tables
          /\ ld_i' = o.agent.ld_i
          /\ loaded' = o.agent.loaded
          /\ ag_pc' = o.agent.ag_pc
          /\ filtered_schema' = o.agent.run.filtered_schema
          /\ sql_in_schema' = o.agent.run.sql_in_schema
          /\ sql' = o.agent.run.sql
          /\ oracle_calls' = o.agent.run.oracle_calls
          /\ exec_count' = o.agent.run.exec_count
          /\ query_out' = o.agent.run.query_out
          /\ ag_result' = o.agent.run.ag_result
    /\ pc' = "structured_done"
    /\ UNCHANGED <<question, current_message_id, project_docs, rag_response_text, rag_raw,
                   agent_type, rag_invoked, rag_result, citations, final_response,
                   abort_cause, http_status>>
    /\ UNCHANGED vars_store
    /\ UNCHANGED vars_aux

\* step 4, lines 561-598
UnstructuredBranch ==
    /\ pc = "structured_done"
    /\ \E settings \in {"simple", "agentic", "hybrid", "<raises>"}, history_ok \in BOOLEAN :
         LET selected == IF settings = "<raises>" THEN "simple" ELSE settings
             history == GetChatHistory(messages, CHAT, current_message_id, history_ok)
         IN  /\ agent_type' = selected
             /\ chat_history' = history
             /\ hist_args' = [called |-> TRUE, chat_id |-> CHAT,
                              exclude_message_id |-> current_message_id, ok |-> history_ok]
             /\ \/ \* agent stays None (lines 579-593)
                   /\ selected \notin {"simple", "agentic"}
                   /\ pc' = "rag_done"
                   /\ failures' = failures
                                  \cup (IF settings = "<raises>" THEN {"settings"} ELSE {})
                                  \cup (IF history_ok THEN {} ELSE {"history"})
                   /\ UNCHANGED <<rag_invoked, rag_result, rag_response_text, rag_raw,
                                  citations, abort_cause, http_status>>
                \/ \* creating the agent raises (lines 581-591)
                   /\ selected \in {"simple", "agentic"}
                   /\ Abort("rag_create", 500)
                   /\ failures' = failures \cup {"rag_create"}
                                  \cup (IF settings = "<raises>" THEN {"settings"} ELSE {})
                                  \cup (IF history_ok THEN {} ELSE {"history"})
                   /\ UNCHANGED <<rag_invoked, rag_result, rag_response_text, rag_raw, citations>>
                \/ \* agent.invoke raises (line 594)
                   /\ selected \in {"simple", "agentic"}
                   /\ Abort("rag_invoke", 500)
                   /\ rag_invoked' = [invoked |-> TRUE, agent_type |-> selected,
                                      chat_history |-> history, content |-> question]
                   /\ failures' = failures \cup {"rag_invoke"}
                                  \cup (IF settings = "<raises>" THEN {"settings"} ELSE {})
                                  \cup (IF history_ok THEN {} ELSE {"history"})
                   /\ UNCHANGED <<rag_result, rag_response_text, rag_raw, citations>>
                \/ \* agent.invoke returns (lines 594-598)
                   /\ selected \in {"simple", "agentic"}
                   /\ \E content \in RagAnswers, cites \in RagCitations :
                        LET result == [kind |-> "result", content |-> content,
                                       has_citations |-> cites.has_citations,
                                       citations |-> cites.citations]
                        IN  /\ rag_result' = result
                            /\ rag_response_text' = result.content
                            /\ rag_raw' = result.content
                            /\ citations' = ResultCitations(result)
                   /\ rag_invoked' = [invoked |-> TRUE, agent_type |-> selected,
                                      chat_history |-> history, content |-> question]
                   /\ pc' = "rag_done"
                   /\ failures' = failures
                                  \cup (IF settings = "<raises>" THEN {"settings"} ELSE {})
                                  \cup (IF history_ok THEN {} ELSE {"history"})
                   /\ UNCHANGED <<abort_cause, http_status>>
    /\ UNCHANGED <<messages, clock>>
    /\ UNCHANGED <<question, current_message_id, project_docs, downloads, csv_response_text,
                   final_response>>
    /\ UNCHANGED <<vars_loader, vars_agent>>
    /\ UNCHANGED vars_aux

\* step 5, lines 600-629: suppression, then the merge
CombineResponses ==
    /\ pc = "rag_done"
    /\ rag_response_text' = Suppress(rag_response_text)
    /\ final_response' = Merge(csv_response_text, Suppress(rag_response_text))
    /\ pc' = "merged"
    /\ UNCHANGED <<question, current_message_id, project_docs, downloads, csv_response_text,
                   rag_raw, agent_type, rag_invoked, rag_result, failures, citations,
                   abort_cause, http_status>>
    /\ UNCHANGED <<vars_loader, vars_agent, vars_store>>
    /\ UNCHANGED vars_aux

\* lines 631-652
InsertAssistantMessage ==
    /\ pc = "merged"
    /\ \/ /\ messages' = InsertRow(messages, clock, CHAT, "assistant", final_response, citations)
          /\ clock' = clock + 1
          /\ pc' = "done"
          /\ http_status' = 200
          /\ UNCHANGED abort_cause
       \/ /\ \E status \in {422, 500} : Abort("assistant_insert", status)
          /\ UNCHANGED <<messages, clock>>
    /\ UNCHANGED <<chat_history, hist_args>>
    /\ UNCHANGED <<question, current_message_id, project_docs, downloads, csv_response_text,
                   rag_response_text, rag_raw, agent_type, rag_invoked, rag_result, failures,
                   citations, final_response>>
    /\ UNCHANGED <<vars_loader, vars_agent>>
    /\ UNCHANGED vars_aux

\* ---------------------------------------------------------------- scratch files of concurrent requests
\* Step 3 of send_message for requests of one project served at the same time by
\* different workers of the server: the requests share /tmp, each agent has its own
\* sqlite store (line 28 of smart_sql_agent.py).
Requests == {1, 2}

MaxVersions == 2

\* an upload of a file of the project: the same filename may be stored under several keys
DocVersion(fname, v) ==
    [filename |-> fname, s3_key |-> "projects/" \o PROJECT \o "/v" \o NatToStr(v) \o "/" \o fname]

\* line 489: the completed documents as the store returned them to one request
RequestDocChoices ==
    { << DocVersion("schema.json", a), DocVersion("final_movies.csv", b) >> :
        a, b \in 1..MaxVersions }

\* the object the bucket holds under a key
ObjectAt(s3_key) == "object " \o s3_key

\* the local paths of lines 518 and 538
ScratchPaths ==
    UNION { {SchemaLocalPath(docs[i]) : i \in DOMAIN docs} \cup {CsvLocalPath(docs[i]) : i \in DOMAIN docs}
            : docs \in RequestDocChoices }

InitScratchVars ==
    /\ disk = [p \in ScratchPaths |-> ""]
    /\ rq_pc = [r \in Requests |-> "idle"]
    /\ rq_docs = [r \in Requests |-> <<>>]
    /\ schema_path = [r \in Requests |-> ""]
    /\ local_csv_paths = [r \in Requests |-> <<>>]
    /\ rq_downloaded = [r \in Requests |-> <<>>]
    /\ rq_loaded = [r \in Requests |-> <<>>]

\* each request is past step 2 with the documents it fetched
InitScratch ==
    /\ disk = [p \in ScratchPaths |-> ""]
    /\ rq_pc = [r \in Requests |-> "schema"]
    /\ rq_docs \in [Requests -> RequestDocChoices]
    /\ schema_path = [r \in Requests |-> ""]
    /\ local_csv_paths = [r \in Requests |-> <<>>]
    /\ rq_downloaded = [r \in Requests |-> <<>>]
    /\ rq_loaded = [r \in Requests |-> <<>>]

\* lines 512-526: the schema document is downloaded to /tmp/schema_agent/{project_id}/fname
DownloadSchemaFile ==
    /\ \E r \in Requests :
         /\ rq_pc[r] = "schema"
         /\ LET doc == rq_docs[r][FirstSchemaDoc(rq_docs[r])]
                local_path == SchemaLocalPath(doc)
            IN  \/ /\ disk' = [disk EXCEPT ![local_path] = ObjectAt(doc.s3_key)]
                   /\ schema_path' = [schema_path EXCEPT ![r] = local_path]
                   /\ rq_downloaded' = [rq_downloaded EXCEPT ![r] =
                         Append(@, [path |-> local_path, content |-> ObjectAt(doc.s3_key)])]
                   /\ rq_pc' = [rq_pc EXCEPT ![r] = "files"]
                \/ \* download_file raises (line 524): the request answers with the notice
                   /\ rq_pc' = [rq_pc EXCEPT ![r] = "done"]
                   /\ UNCHANGED <<disk, schema_path, rq_downloaded>>
    /\ UNCHANGED <<rq_docs, local_csv_paths, rq_loaded>>
    /\ UNCHANGED <<vars_core, vars_create, vars_auth>>

\* lines 535-542: the next structured file is downloaded to /tmp/csv_agent/{project_id}/fname
DownloadStructuredFile ==
    /\ \E r \in Requests :
         /\ rq_pc[r] = "files"
         /\ LET structured_files == StructuredFiles(rq_docs[r])
                doc == structured_files[Len(local_csv_paths[r]) + 1]
                local_path == CsvLocalPath(doc)
            IN  \/ /\ disk' = [disk EXCEPT ![local_path] = ObjectAt(doc.s3_key)]
                   /\ local_csv_paths' = [local_csv_paths EXCEPT ![r] = Append(@, local_path)]
                   /\ rq_downloaded' = [rq_downloaded EXCEPT ![r] =
                         Append(@, [path |-> local_path, content |-> ObjectAt(doc.s3_key)])]
                   /\ rq_pc' = [rq_pc EXCEPT ![r] =
                         IF Len(local_csv_paths[r]) + 1 = Len(structured_files)
                         THEN "open_schema" ELSE "files"]
                \/ \* download_file raises (line 541), caught at line 555
                   /\ rq_pc' = [rq_pc EXCEPT ![r] = "done"]
                   /\ UNCHANGED <<disk, local_csv_paths, rq_downloaded>>
    /\ UNCHANGED <<rq_docs, schema_path, rq_loaded>>
    /\ UNCHANGED <<vars_core, vars_create, vars_auth>>

\* smart_sql_agent.py lines 24-25: the constructor reads the file at schema_json_path
OpenSchemaFile ==
    /\ \E r \in Requests :
         /\ rq_pc[r] = "open_schema"
         /\ rq_loaded' = [rq_loaded EXCEPT ![r] =
               Append(@, [path |-> schema_path[r], content |-> disk[schema_path[r]]])]
         /\ rq_pc' = [rq_pc EXCEPT ![r] = "read_files"]
    /\ UNCHANGED <<disk, rq_docs, schema_path, local_csv_paths, rq_downloaded>>
    /\ UNCHANGED <<vars_core, vars_create, vars_auth>>

\* smart_sql_agent.py lines 33-38: the loader reads the next file of file_paths
ReadStructuredFile ==
    /\ \E r \in Requests :
         /\ rq_pc[r] = "read_files"
         /\ LET path == local_csv_paths[r][Len(rq_loaded[r])]
            IN  rq_loaded' = [rq_loaded EXCEPT ![r] =
                   Append(@, [path |-> path, content |-> disk[path]])]
         /\ rq_pc' = [rq_pc EXCEPT ![r] =
               IF Len(rq_loaded[r]) = Len(local_csv_paths[r]) THEN "done" ELSE "read_files"]
    /\ UNCHANGED <<disk, rq_docs, schema_path, local_csv_paths, rq_downloaded>>
    /\ UNCHANGED <<vars_core, vars_create, vars_auth>>

\* ---------------------------------------------------------------- create_project
MaxProjects == 2

CLERK_ID == "user_1"

\* the bodies create_project is called with
ProjectInputs == [name : {"Movies", "Sales"}, description : {"", "demo"}]

NoResponse == [status |-> 0, detail |-> ""]

InitCreateVars ==
    /\ projects = {}
    /\ project_settings = {}
    /\ cp_pc = "idle"
    /\ project_data = [name |-> "", description |-> ""]
    /\ newly_created_project = [id |-> 0]
    /\ cp_response = NoResponse
    /\ next_project_id = 1

\* a request arrives (lines 80-83)
StartCreateProject ==
    /\ cp_pc \in {"idle", "returned"}
    /\ next_project_id <= MaxProjects
    /\ project_data' \in ProjectInputs
    /\ newly_created_project' = [id |-> 0]
    /\ cp_response' = NoResponse
    /\ cp_pc' = "insert_project"
    /\ UNCHANGED <<projects, project_settings, next_project_id>>
    /\ UNCHANGED <<vars_core, vars_scratch, vars_auth>>

\* lines 94-111
InsertProject ==
    /\ cp_pc = "insert_project"
    /\ \/ /\ projects' = projects \cup
                {[id |-> next_project_id, name |-> project_data.name,
                  description |-> project_data.description, clerk_id |-> CLERK_ID]}
          /\ newly_created_project' = [id |-> next_project_id]
          /\ next_project_id' = next_project_id + 1
          /\ cp_pc' = "insert_settings"
          /\ UNCHANGED cp_response
       \/ \* the insert returns no data (line 105)
          /\ cp_response' = [status |-> 422,
                             detail |-> "Failed to create project - invalid data provided"]
          /\ cp_pc' = "returned"
          /\ UNCHANGED <<projects, newly_created_project, next_project_id>>
       \/ \* the insert raises (line 151)
          /\ cp_response' = [status |-> 500,
                             detail |-> "An internal server error occurred while creating project: "]
          /\ cp_pc' = "returned"
          /\ UNCHANGED <<projects, newly_created_project, next_project_id>>
    /\ UNCHANGED <<project_settings, project_data>>
    /\ UNCHANGED <<vars_core, vars_scratch, vars_auth>>

\* lines 113-146
InsertProjectSettings ==
    /\ cp_pc = "insert_settings"
    /\ \/ /\ project_settings' = project_settings \cup
                {[project_id |-> newly_created_project.id, agent_type |-> "agentic"]}
          /\ cp_response' = [status |-> 200, detail |-> "Project created successfully"]
          /\ cp_pc' = "returned"
       \/ \* the insert returns no data (line 133): the rollback is next
          /\ cp_pc' = "rollback"
          /\ UNCHANGED <<project_settings, cp_response>>
       \/ \* the insert raises: line 151, past the rollback of line 135
          /\ cp_response' = [status |-> 500,
                             detail |-> "An internal server error occurred while creating project: "]
          /\ cp_pc' = "returned"
          /\ UNCHANGED project_settings
    /\ UNCHANGED <<projects, project_data, newly_created_project, next_project_id>>
    /\ UNCHANGED <<vars_core, vars_scratch, vars_auth>>

\* lines 134-141
RollbackProject ==
    /\ cp_pc = "rollback"
    /\ \/ /\ projects' = {p \in projects : p.id # newly_created_project.id}
          /\ cp_response' = [status |-> 422,
                             detail |-> "Failed to create project settings - project creation rolled back"]
       \/ \* the delete raises (line 151)
          /\ cp_response' = [status |-> 500,
                             detail |-> "An internal server error occurred while creating project: "]
          /\ UNCHANGED projects
    /\ cp_pc' = "returned"
    /\ UNCHANGED <<project_settings, project_data, newly_created_project, next_project_id>>
    /\ UNCHANGED <<vars_core, vars_scratch, vars_auth>>

\* ---------------------------------------------------------------- get_current_user_clerk_id
\* get_current_user_clerk_id is a plain def used as a dependency, which the framework
\* runs in worker threads: calls interleave between their accesses to token_cache.
Threads == {1, 2}

CACHE_TTL == 60

MaxCalls == 2
MaxNow == 90
TickSeconds == 30

\* the bearer token the calls present, and the "sub" of its payload
TOKEN == "tok-1"
SUB == "user_1"

NoResult == [kind |-> "none", clerk_id |-> "", status |-> 0, detail |-> ""]
Returned(clerk_id) == [kind |-> "clerk_id", clerk_id |-> clerk_id, status |-> 0, detail |-> ""]
Raised(status, detail) == [kind |-> "error", clerk_id |-> "", status |-> status, detail |-> detail]

\* lines 69-85 on a KeyError for the token: str(KeyError(token)) is the quoted token
KeyErrorRaised == Raised(500, "Clerk SDK Failed. '" \o TOKEN \o "'")

\* "token in token_cache"
InCache(cache, token) == \E e \in cache : e.token = token

\* token_cache[token]
CacheEntry(cache, token) == CHOOSE e \in cache : e.token = token

\* token_cache[token] = (clerk_id, timestamp)
CachePut(cache, token, clerk_id, timestamp) ==
    {e \in cache : e.token # token}
    \cup {[token |-> token, clerk_id |-> clerk_id, timestamp |-> timestamp]}

\* del token_cache[token]
CacheDel(cache, token) == {e \in cache : e.token # token}

InitAuthVars ==
    /\ token_cache = {}
    /\ now = 0
    /\ au_pc = [t \in Threads |-> "idle"]
    /\ au_cached = [t \in Threads |-> [clerk_id |-> "", timestamp |-> 0]]
    /\ au_result = [t \in Threads |-> NoResult]
    /\ au_calls = [t \in Threads |-> 0]

\* time passes
Tick ==
    /\ now < MaxNow
    /\ now' = now + TickSeconds
    /\ UNCHANGED <<token_cache, au_pc, au_cached, au_result, au_calls>>
    /\ UNCHANGED <<vars_core, vars_scratch, vars_create>>

\* a request with "Authorization: Bearer <TOKEN>" arrives (lines 20-30)
StartAuth ==
    /\ \E t \in Threads :
         /\ au_pc[t] = "idle"
         /\ au_calls[t] < MaxCalls
         /\ au_calls' = [au_calls EXCEPT ![t] = @ + 1]
         /\ au_result' = [au_result EXCEPT ![t] = NoResult]
         /\ au_pc' = [au_pc EXCEPT ![t] = "check"]
    /\ UNCHANGED <<token_cache, now, au_cached>>
    /\ UNCHANGED <<vars_core, vars_scratch, vars_create>>

\* line 31: if token in token_cache
CheckCache ==
    /\ \E t \in Threads :
         /\ au_pc[t] = "check"
         /\ au_pc' = [au_pc EXCEPT ![t] = IF InCache(token_cache, TOKEN) THEN "read" ELSE "auth"]
    /\ UNCHANGED <<token_cache, now, au_cached, au_result, au_calls>>
    /\ UNCHANGED <<vars_core, vars_scratch, vars_create>>

\* line 32: cached_clerk_id, timestamp = token_cache[token]
ReadCache ==
    /\ \E t \in Threads :
         /\ au_pc[t] = "read"
         /\ IF InCache(token_cache, TOKEN)
            THEN /\ au_cached' = [au_cached EXCEPT ![t] =
                        [clerk_id |-> CacheEntry(token_cache, TOKEN).clerk_id,
                         timestamp |-> CacheEntry(token_cache, TOKEN).timestamp]]
                 /\ au_pc' = [au_pc EXCEPT ![t] = "ttl"]
                 /\ UNCHANGED au_result
            ELSE \* KeyError, caught at line 69
                 /\ au_result' = [au_result EXCEPT ![t] = KeyErrorRaised]
                 /\ au_pc' = [au_pc EXCEPT ![t] = "idle"]
                 /\ UNCHANGED au_cached
    /\ UNCHANGED <<token_cache, now, au_calls>>
    /\ UNCHANGED <<vars_core, vars_scratch, vars_create>>

\* lines 33-35: if time.time() - timestamp < CACHE_TTL: return cached_clerk_id
CompareAge ==
    /\ \E t \in Threads :
         /\ au_pc[t] = "ttl"
         /\ IF now - au_cached[t].timestamp < CACHE_TTL
            THEN /\ au_result' = [au_result EXCEPT ![t] = Returned(au_cached[t].clerk_id)]
                 /\ au_pc' = [au_pc EXCEPT ![t] = "idle"]
            ELSE /\ au_pc' = [au_pc EXCEPT ![t] = "del"]
                 /\ UNCHANGED au_result
    /\ UNCHANGED <<token_cache, now, au_cached, au_calls>>
    /\ UNCHANGED <<vars_core, vars_scratch, vars_create>>

\* line 37: del token_cache[token]
DeleteExpired ==
    /\ \E t \in Threads :
         /\ au_pc[t] = "del"
         /\ IF InCache(token_cache, TOKEN)
            THEN /\ token_cache' = CacheDel(token_cache, TOKEN)
                 /\ au_pc' = [au_pc EXCEPT ![t] = "auth"]
                 /\ UNCHANGED au_result
            ELSE \* KeyError, caught at line 69
                 /\ au_result' = [au_result EXCEPT ![t] = KeyErrorRaised]
                 /\ au_pc' = [au_pc EXCEPT ![t] = "idle"]
                 /\ UNCHANGED token_cache
    /\ UNCHANGED <<now, au_cached, au_calls>>
    /\ UNCHANGED <<vars_core, vars_scratch, vars_create>>

\* lines 40-51: the identity service authenticates the request. TOKEN is a token the
\* service accepts: when it answers, is_signed_in holds and the payload has its "sub"
Authenticate ==
    /\ \E t \in Threads :
         /\ au_pc[t] = "auth"
         /\ \/ /\ au_cached' = [au_cached EXCEPT ![t] = [clerk_id |-> SUB, timestamp |-> 0]]
               /\ au_pc' = [au_pc EXCEPT ![t] = "update"]
               /\ UNCHANGED au_result
            \/ \* the service is unreachable: line 69
               /\ au_result' = [au_result EXCEPT ![t] = Raised(500, "Clerk SDK Failed. Connection error")]
               /\ au_pc' = [au_pc EXCEPT ![t] = "idle"]
               /\ UNCHANGED au_cached
    /\ UNCHANGED <<token_cache, now, au_calls>>
    /\ UNCHANGED <<vars_core, vars_scratch, vars_create>>

\* lines 53-62: token_cache[token] = (clerk_id, time.time()); return clerk_id
UpdateCache ==
    /\ \E t \in Threads :
         /\ au_pc[t] = "update"
         /\ token_cache' = CachePut(token_cache, TOKEN, au_cached[t].clerk_id, now)
         /\ au_result' = [au_result EXCEPT ![t] = Returned(au_cached[t].clerk_id)]
         /\ au_pc' = [au_pc EXCEPT ![t] = "idle"]
    /\ UNCHANGED <<now, au_cached, au_calls>>
    /\ UNCHANGED <<vars_core, vars_scratch, vars_create>>

InitAuxVars == InitScratchVars /\ InitCreateVars /\ InitAuthVars

\* ---------------------------------------------------------------- defaults
\* values of the variables of the parts a specification does not exercise
InitAgentVars ==
    /\ ag_pc = "idle"
    /\ filtered_schema = NoTablesKey
    /\ sql_in_schema = NoTablesKey
    /\ sql = ""
    /\ oracle_calls = <<>>
    /\ exec_count = 0
    /\ query_out = [kind |-> "none"]
    /\ ag_result = [kind |-> "none"]

InitStoreVars ==
    /\ messages = {}
    /\ clock = 1
    /\ chat_history = <<>>
    /\ hist_args = [called |-> FALSE]

InitSendVars ==
    /\ pc = "idle"
    /\ question = ""
    /\ current_message_id = 0
    /\ project_docs = <<>>
    /\ downloads = <<>>
    /\ csv_response_text = ""
    /\ rag_response_text = ""
    /\ rag_raw = ""
    /\ agent_type = ""
    /\ rag_invoked = [invoked |-> FALSE]
    /\ rag_result = [kind |-> "none"]
    /\ failures = {}
    /\ citations = <<>>
    /\ final_response = ""
    /\ abort_cause = "none"
    /\ http_status = 0

\* ---------------------------------------------------------------- SpecLoader
InitL == InitLoader /\ InitAgentVars /\ InitStoreVars /\ InitSendVars /\ InitAuxVars

NextLoader == LoadFile

SpecLoader == InitL /\ [][NextLoader]_vars

LoaderDone == ld_i > Len(file_paths)

\* indexes of the TableSpecs whose lowercased table_name matches a simple name
MatchingSpecs(sch, simple) ==
    IF sch.has_tables
    THEN {k \in 1..Len(sch.tables) : NameMatches(Lower(sch.tables[k]), simple)}
    ELSE {}

MinOf(S) == CHOOSE k \in S : \A j \in S : k <= j
MaxOf(S) == CHOOSE k \in S : \A j \in S : j <= k

\* C5: every loaded file's table name is the lowercased table_name of the first
\* TableSpec, in declared order, that matches the file's simple name in either
\* direction, and the simple name unchanged when no TableSpec matches.
C5_FirstMatchingTableSpecWins ==
    \A j \in DOMAIN loaded :
        LET simple == SimpleFilename(loaded[j].path)
            M == MatchingSpecs(schema, simple)
        IN  loaded[j].table_name =
                IF M # {} THEN Lower(schema.tables[MinOf(M)]) ELSE simple

\* the resolution is as C5 states it whenever no table_name of the schema is empty
FirstMatchWinsForNamedTables ==
    (schema.has_tables /\ \E k \in DOMAIN schema.tables : schema.tables[k] = "")
    \/ C5_FirstMatchingTableSpecWins

\* C10: the store holds one table per name, each holding the rows of the last
\* loaded file that resolved to its name, and loading a file again changes nothing.
C10_ReplaceNeverAppend ==
    /\ \A t1, t2 \in tables : t1.name = t2.name => t1 = t2
    /\ {t.name : t \in tables} = {loaded[j].table_name : j \in DOMAIN loaded}
    /\ \A t \in tables :
          LET J == {j \in DOMAIN loaded : loaded[j].table_name = t.name}
          IN  t.rows = ReadFile(loaded[MaxOf(J)].path)
    /\ \A p \in Paths :
          LoadOne(LoadOne(tables, schema, p), schema, p) = LoadOne(tables, schema, p)
    /\ ld_i > 1 => LoadOne(tables, schema, file_paths[ld_i - 1]) = tables

\* two different files resolved to one table name and the loop has ended
C10_Witness ==
    /\ LoaderDone
    /\ \E i, j \in DOMAIN loaded :
          /\ i < j
          /\ loaded[i].table_name = loaded[j].table_name
          /\ loaded[i].path # loaded[j].path

\* what precedes the last occurrence of the character c; all of s when there is none
BeforeLast(s, c) ==
    LET at == {i \in 1..Len(s) : Ch(s, i) = c}
    IN  IF at = {} THEN s ELSE SubSeq(s, 1, MaxOf(at) - 1)

\* the simple name as claimed: the filename without its directories and without its
\* final extension, lowercased
ClaimedSimpleName(path) == Lower(BeforeLast(SplitLast(SplitLast(path, "/"), "\\"), "."))

\* C17: the simple name derived for every loaded file is its lowercased filename with
\* the directory components and only the final extension removed.
C17_SimpleNameStripsFinalExtension ==
    \A j \in DOMAIN loaded : loaded[j].simple_filename = ClaimedSimpleName(loaded[j].path)

\* the derived name is as C17 states it for every filename with a single dot
SimpleNameForSingleDotFilenames ==
    \A j \in DOMAIN loaded :
        LET fname == SplitLast(loaded[j].path, "/")
        IN  Cardinality({i \in 1..Len(fname) : Ch(fname, i) = "."}) = 1 =>
                loaded[j].simple_filename = ClaimedSimpleName(loaded[j].path)

\* ---------------------------------------------------------------- SpecAgent
InitA ==
    /\ InitLoaderVars /\ InitStoreVars /\ InitSendVars /\ InitAuxVars
    /\ ag_pc = "start"
    /\ filtered_schema = NoTablesKey
    /\ sql_in_schema = NoTablesKey
    /\ sql = ""
    /\ oracle_calls = <<>>
    /\ exec_count = 0
    /\ query_out = [kind |-> "none"]
    /\ ag_result = [kind |-> "none"]

NextAgent ==
    \/ FilterSchema
    \/ GenerateSql
    \/ SentinelReturn
    \/ ExecuteQuery

SpecAgent == InitA /\ [][NextAgent]_vars

\* the step-by-step actions and the set of complete runs describe the same function
AgentRunsAgree ==
    ag_pc = "returned" =>
        [filtered_schema |-> filtered_schema, sql_in_schema |-> sql_in_schema, sql |-> sql,
         oracle_calls |-> oracle_calls, exec_count |-> exec_count, query_out |-> query_out,
         ag_result |-> ag_result]
          \in AgentRuns(schema, FilterOutputs, RawSqlOutputs, QueryOutcomes)

\* C2: once the cleaned SQLSynthesizer output contains NO_SQL_POSSIBLE, no query is
\* executed, and the value returned is the apology with that output as sql and no data.
C2_SentinelShortCircuit ==
    Contains(sql, "NO_SQL_POSSIBLE") =>
        /\ exec_count = 0
        /\ query_out.kind = "none"
        /\ ag_pc = "returned" =>
              /\ ag_result.kind = "dict"
              /\ ag_result.answer = APOLOGY
              /\ ag_result.sql = sql
              /\ ag_result.data = <<>>

\* the call returned on an output that holds the sentinel inside a longer text
C2_Witness ==
    /\ ag_pc = "returned"
    /\ Contains(sql, "NO_SQL_POSSIBLE")
    /\ sql # "NO_SQL_POSSIBLE"
    /\ ag_result.kind = "dict"

\* the table the claim describes, from the result's own columns and rows
ClaimedTable(columns, rows) ==
    Join(<< Join(columns, " | "),
            Repeat("-", SumLen(columns) + 3 * (Len(columns) - 1)) >>
         \o [r \in DOMAIN rows |-> Join([c \in DOMAIN rows[r] |-> Str(rows[r][c])], " | ")],
         "\n")

\* C8: a successful query with rows is answered with the header of the result's
\* column names, the separator of (sum of name lengths) + 3*(columns - 1) dashes and
\* one line per row; a result without rows with "Executed SQL: " and the quoted query
\* followed by two newlines.
C8_RenderedTable ==
    (ag_pc = "returned" /\ query_out.kind \in {"rows", "nodesc"}) =>
        /\ ag_result.kind = "dict"
        /\ ag_result.answer =
              "Executed SQL: " \o BQ \o sql \o BQ \o "\n\n" \o
              (IF query_out.kind = "rows" /\ query_out.rows # <<>>
               THEN ClaimedTable(query_out.columns, query_out.rows)
               ELSE "")

\* the rendering is as C8 states it whenever the result's column names are distinct
RenderedTableForDistinctColumns ==
    ( /\ query_out.kind = "rows"
      /\ \E i, j \in DOMAIN query_out.columns :
            i # j /\ query_out.columns[i] = query_out.columns[j] )
    \/ C8_RenderedTable

\* the parts of s between the occurrences of sep
RECURSIVE SplitOn(_, _)
SplitOn(s, sep) ==
    IF \E i \in 1..(Len(s) - Len(sep) + 1) : SubSeq(s, i, i + Len(sep) - 1) = sep
    THEN LET i == CHOOSE i \in 1..(Len(s) - Len(sep) + 1) :
                    /\ SubSeq(s, i, i + Len(sep) - 1) = sep
                    /\ \A j \in 1..(i - 1) : SubSeq(s, j, j + Len(sep) - 1) # sep
         IN  <<SubSeq(s, 1, i - 1)>> \o SplitOn(SubSeq(s, i + Len(sep), Len(s)), sep)
    ELSE <<s>>

\* the lines of the table in a returned answer: what follows the quoted query
RenderedLines ==
    LET prefix == "Executed SQL: " \o BQ \o sql \o BQ \o "\n\n"
        table == SubSeq(ag_result.answer, Len(prefix) + 1, Len(ag_result.answer))
    IN  IF table = "" THEN <<>> ELSE SplitOn(table, "\n")

\* a query was executed successfully and gave columns and rows
QuerySucceeded == ag_pc = "returned" /\ query_out.kind = "rows"

\* C21: for every successfully executed query, also one whose result has two columns of
\* one name, each mapping of the returned data has one entry per result column, and the
\* rendered header and every rendered row have as many " | "-separated fields as the
\* result has columns, in the result's column order.
C21_OneEntryPerColumn ==
    QuerySucceeded =>
        /\ Len(ag_result.data) = Len(query_out.rows)
        /\ \A r \in DOMAIN ag_result.data :
              /\ Len(ag_result.data[r]) = Len(query_out.columns)
              /\ \A c \in DOMAIN query_out.columns :
                    /\ ag_result.data[r][c].key = query_out.columns[c]
                    /\ ag_result.data[r][c].val = query_out.rows[r][c]
        /\ query_out.rows # <<>> =>
              /\ Len(RenderedLines) = Len(query_out.rows) + 2
              /\ SplitOn(RenderedLines[1], " | ") = query_out.columns
              /\ \A r \in DOMAIN query_out.rows :
                    SplitOn(RenderedLines[r + 2], " | ")
                       = [c \in DOMAIN query_out.columns |-> Str(query_out.rows[r][c])]

\* the data and the table are as C21 states them whenever the column names are distinct
OneEntryPerDistinctColumn ==
    ( /\ query_out.kind = "rows"
      /\ \E i, j \in DOMAIN query_out.columns :
            i # j /\ query_out.columns[i] = query_out.columns[j] )
    \/ C21_OneEntryPerColumn

\* with two columns of one name the mapping keeps one entry, holding the last value
DuplicateColumnsCollapse ==
    ( /\ QuerySucceeded
      /\ Len(query_out.columns) = 2
      /\ query_out.columns[1] = query_out.columns[2] ) =>
        \A r \in DOMAIN ag_result.data :
            ag_result.data[r] = << [key |-> query_out.columns[1], val |-> query_out.rows[r][2]] >>

\* filter_schema raised: the call returned after one oracle call
FilterFailed == ag_pc = "returned" /\ Len(oracle_calls) = 1

\* C15: the steps of one invocation are strictly ordered. A step that calls the
\* SQLSynthesizer oracle starts where filter_schema has returned and passes exactly the
\* value it returned; a step that executes a query starts where generate_sql has
\* returned; after a failed filter_schema there is no SQLSynthesizer call and no query.
C15_StrictOrder ==
    /\ [](FilterFailed =>
            /\ oracle_calls[1].op = "filter_schema"
            /\ exec_count = 0
            /\ query_out.kind = "none"
            /\ ag_result.kind = "str")
    /\ [][ /\ ( /\ Len(oracle_calls') > Len(oracle_calls)
                /\ oracle_calls'[Len(oracle_calls')].op = "generate_sql" ) =>
                  /\ ag_pc = "filtered"
                  /\ Len(oracle_calls) = 1
                  /\ oracle_calls[1].op = "filter_schema"
                  /\ oracle_calls'[2].schema = filtered_schema
                  /\ sql_in_schema' = filtered_schema
                  /\ exec_count = 0
           /\ ( /\ Len(oracle_calls') > Len(oracle_calls)
                /\ oracle_calls'[Len(oracle_calls')].op = "filter_schema" ) =>
                  /\ ag_pc = "start"
                  /\ oracle_calls = <<>>
           /\ exec_count' # exec_count =>
                  /\ ag_pc = "generated"
                  /\ exec_count = 0
                  /\ Len(oracle_calls) = 2
                  /\ oracle_calls[2].op = "generate_sql"
           /\ FilterFailed => UNCHANGED <<oracle_calls, exec_count>>
         ]_vars

\* a query was executed on a filtered schema that is not the whole schema
C15_Witness ==
    /\ ag_pc = "returned"
    /\ exec_count = 1
    /\ Len(oracle_calls) = 2
    /\ oracle_calls[2].schema = filtered_schema
    /\ filtered_schema # schema

\* the SchemaFilter output did not parse
C15_WitnessFilterFailed == FilterFailed /\ ag_result = ErrorResult(ParseError)

\* ---------------------------------------------------------------- SpecHistory
InitH ==
    /\ InitLoaderVars /\ InitAgentVars /\ InitSendVars /\ InitAuxVars
    /\ messages = PriorChat(PreMsgs)
    /\ clock = PreMsgs + 1
    /\ chat_history = <<>>
    /\ hist_args = [called |-> FALSE]

NextHistory ==
    \/ InsertMessage
    \/ CallGetChatHistory

SpecHistory == InitH /\ [][NextHistory]_vars

\* the stored messages of the chat the call names, the excluded one left out
Eligible ==
    {m \in messages : m.chat_id = hist_args.chat_id /\ m.id # hist_args.exclude_message_id}

Min(a, b) == IF a <= b THEN a ELSE b

Init ==
    /\ InitLoaderVars /\ InitAgentVars /\ InitAuxVars
    /\ \E n \in {0, PreMsgs} :
          /\ messages = PriorChat(n)
          /\ clock = n + 1
    /\ chat_history = <<>>
    /\ hist_args = [called |-> FALSE]
    /\ pc = "start"
    /\ question = QUESTION
    /\ current_message_id = 0
    /\ project_docs = <<>>
    /\ downloads = <<>>
    /\ csv_response_text = ""
    /\ rag_response_text = ""
    /\ rag_raw = ""
    /\ agent_type = ""
    /\ rag_invoked = [invoked |-> FALSE]
    /\ rag_result = [kind |-> "none"]
    /\ failures = {}
    /\ citations = <<>>
    /\ final_response = ""
    /\ abort_cause = "none"
    /\ http_status = 0

Next ==
    \/ InsertUserMessage
    \/ FetchDocuments
    \/ StructuredBranch
    \/ UnstructuredBranch
    \/ CombineResponses
    \/ InsertAssistantMessage

Spec == Init /\ [][Next]_vars

\* the merge step has run
Merged == pc \in {"merged", "done"} \/ (pc = "error" /\ abort_cause = "assistant_insert")

\* C1: the merged reply follows the truth table over the structured answer and the
\* unstructured answer as suppression left it: both present, the two headed sections;
\* one present, that text unchanged; neither, the fallback sentence.
C1_MergeTruthTable ==
    Merged =>
        /\ (csv_response_text # "" /\ rag_response_text # "") =>
              final_response = "**Analysis from Structured Data:**\n" \o csv_response_text
                               \o "\n\n**Analysis from Documents:**\n" \o rag_response_text
        /\ (csv_response_text # "" /\ rag_response_text = "") =>
              final_response = csv_response_text
        /\ (csv_response_text = "" /\ rag_response_text # "") =>
              final_response = rag_response_text
        /\ (csv_response_text = "" /\ rag_response_text = "") =>
              final_response = "I searched available resources but found no relevant information or experienced an error."

\* both answers were present and were merged under the two headings
C1_Witness ==
    /\ Merged
    /\ csv_response_text # "" /\ rag_response_text # ""
    /\ rag_response_text # "No relevant chunks found"
    /\ exec_count = 1

C1_WitnessOnlyStructured == Merged /\ csv_response_text # "" /\ rag_response_text = ""
C1_WitnessOnlyUnstructured == Merged /\ csv_response_text = "" /\ rag_response_text # ""
C1_WitnessNeither == Merged /\ csv_response_text = "" /\ rag_response_text = ""

StructuredFailureKinds == {"schema_download", "file_download", "schema_load", "oracle", "query"}
UnstructuredFailureKinds == {"settings", "history", "rag_create", "rag_invoke"}

\* C3: a failure of one branch never keeps the other from running and contributing:
\* after a structured failure the selected unstructured agent is still invoked, and after
\* an unstructured failure the request still reaches the merge with the structured answer.
C3_BranchFailureIsolated ==
    /\ ( /\ failures \cap StructuredFailureKinds # {}
         /\ pc \in {"rag_done", "merged", "done"}
         /\ agent_type \in {"simple", "agentic"} ) => rag_invoked.invoked
    /\ ( /\ failures \cap UnstructuredFailureKinds # {}
         /\ csv_response_text # ""
         /\ pc \in {"done", "error"} ) =>
            /\ Merged
            /\ final_response = Merge(csv_response_text, rag_response_text)

\* the row the request's user message was stored as
UserMessageStored ==
    \E m \in messages :
        /\ m.id = current_message_id
        /\ m.chat_id = CHAT
        /\ m.role = "user"
        /\ m.content = question

\* C4 as claimed: in every state of a request past its first step, the terminal ones and
\* the error responses included, the user message is in the message store.
C4_UserMessageAlwaysSaved == pc # "start" => UserMessageStored

\* C4 as amended: the same, for every request whose user-message insert succeeded.
C4_SavedOnceInserted ==
    (pc # "start" /\ abort_cause # "user_insert") => UserMessageStored

\* both branches failed and the request ended in an error response
C4_Witness ==
    /\ pc = "error"
    /\ abort_cause = "rag_invoke"
    /\ failures \cap StructuredFailureKinds # {}
    /\ UserMessageStored

\* C7: at the merge, an unstructured answer whose lowercased text contains a phrase of
\* the low-information set has become "No relevant chunks found", and any other answer
\* is as the agent gave it.
C7_SuppressionBeforeMerge ==
    /\ pc = "rag_done" => rag_response_text = rag_raw
    /\ pc = "merged" =>
          IF \E phrase \in GenericPhrases : Contains(Lower(rag_raw), phrase)
          THEN rag_response_text = "No relevant chunks found"
          ELSE rag_response_text = rag_raw

\* an answer holding a phrase in capitals was replaced
C7_Witness ==
    /\ pc = "merged"
    /\ rag_raw = "INFORMATION NOT PRESENT"
    /\ rag_response_text = "No relevant chunks found"

C7_WitnessUnchanged ==
    /\ pc = "merged"
    /\ rag_raw = "That information is not present in the report."
    /\ rag_response_text = rag_raw

\* C9: the stored assistant message carries the merged text and the citations the
\* unstructured agent returned (none when it returned none or was not invoked), and
\* the citations are empty until the unstructured branch has run.
C9_CitationsFromUnstructuredOnly ==
    /\ pc \in {"start", "inserted", "classified", "structured_done"} => citations = <<>>
    /\ pc = "done" =>
          \E m \in messages :
             /\ m.id = clock - 1
             /\ m.role = "assistant"
             /\ m.chat_id = CHAT
             /\ m.content = final_response
             /\ m.citations = IF rag_result.kind = "result" /\ rag_result.has_citations
                              THEN rag_result.citations
                              ELSE <<>>

\* the structured branch ran a query and the agent returned two citations
C9_Witness ==
    /\ pc = "done"
    /\ exec_count = 1
    /\ rag_result.kind = "result"
    /\ Len(rag_result.citations) = 2

\* step 3 of the request is over
StructuredBranchDone ==
    \/ pc \in {"structured_done", "rag_done", "merged", "done"}
    \/ pc = "error" /\ abort_cause \in {"rag_create", "rag_invoke", "assistant_insert"}

\* the structured pipeline ran: an agent was built over downloaded files, or an oracle
\* was called, or a query was executed
PipelineRan ==
    file_paths # <<>> \/ loaded # <<>> \/ oracle_calls # <<>> \/ exec_count > 0
    \/ ag_pc # "idle"

\* positions of the completed documents with a .csv, .xlsx or .xls extension
StructuredDocs ==
    {i \in DOMAIN project_docs :
        \E ext \in {".csv", ".xlsx", ".xls"} : EndsWith(Lower(project_docs[i].filename), ext)}

\* positions of the completed documents with a .json extension
JsonDocs == {i \in DOMAIN project_docs : EndsWith(Lower(project_docs[i].filename), ".json")}

\* C11: the structured pipeline runs only when a structured document exists and the
\* first .json document was downloaded; without a structured document the structured
\* answer stays empty; with structured documents but no .json document the answer is
\* the "schema file required" notice and nothing is downloaded, asked or executed.
C11_StructuredPipelineGated ==
    /\ ~StructuredBranchDone => ~PipelineRan /\ downloads = <<>>
    /\ StructuredBranchDone =>
          /\ StructuredDocs = {} =>
                csv_response_text = "" /\ downloads = <<>> /\ ~PipelineRan
          /\ (StructuredDocs # {} /\ JsonDocs = {}) =>
                /\ csv_response_text = "[Notice: Structured files found but no JSON schema file was detected. Please upload a .json schema file to process the data.]"
                /\ downloads = <<>>
                /\ oracle_calls = <<>>
                /\ exec_count = 0
                /\ ~PipelineRan
          /\ PipelineRan =>
                /\ StructuredDocs # {}
                /\ JsonDocs # {}
                /\ downloads # <<>>
                /\ downloads[1] = [s3_key |-> project_docs[MinOf(JsonDocs)].s3_key, ok |-> TRUE]

\* structured documents without a schema document: the request was answered with the notice
C11_Witness ==
    /\ pc = "done"
    /\ StructuredDocs # {} /\ JsonDocs = {}
    /\ csv_response_text = NOTICE

\* the pipeline ran on the first of two schema documents
C11_WitnessRan ==
    /\ StructuredBranchDone /\ PipelineRan /\ exec_count = 1
    /\ Cardinality(JsonDocs) = 2

\* C12: a failed download (of the schema document or of a structured file) and a
\* SchemaFilter output that does not parse each end only the structured branch: the
\* structured answer is a text describing the error, step 4 still runs, and the request
\* does not end in an error response because of it.
C12_StructuredFailureInline ==
    /\ (StructuredBranchDone /\ failures \cap {"schema_download", "file_download"} # {}) =>
          Contains(csv_response_text, DownloadError)
    /\ (StructuredBranchDone /\ ag_result = ErrorResult(ParseError)) =>
          Contains(csv_response_text, ParseError)
    /\ (failures \cap {"schema_download", "file_download"} # {}
        \/ ag_result = ErrorResult(ParseError)) =>
          /\ pc \in {"rag_done", "merged", "done", "error"} => hist_args.called
          /\ pc = "error" => abort_cause \in {"rag_create", "rag_invoke", "assistant_insert"}

\* the same, for the download of a structured file and the SchemaFilter output only
StructuredFailureInlineButSchemaDownload ==
    "schema_download" \in failures \/ C12_StructuredFailureInline

\* a failed schema download is answered with the notice of a missing schema document
SchemaDownloadFailureGivesNotice ==
    (StructuredBranchDone /\ "schema_download" \in failures) => csv_response_text = NOTICE

\* step 4 of the request is over and the merge is next or done
UnstructuredBranchDone ==
    \/ pc \in {"rag_done", "merged", "done"}
    \/ pc = "error" /\ abort_cause = "assistant_insert"

\* C16: in every request that reaches the merge, whatever its documents, the outcome
\* of the structured branch and the configured agent_type, the simple or the agentic
\* agent has been invoked with the question.
C16_UnstructuredAlwaysInvoked ==
    UnstructuredBranchDone =>
        /\ rag_invoked.invoked
        /\ rag_invoked.agent_type \in {"simple", "agentic"}
        /\ rag_invoked.content = question

\* the same, for the requests whose selected agent_type is simple or agentic
UnstructuredInvokedForKnownAgentTypes ==
    agent_type \notin {"simple", "agentic"} \/ C16_UnstructuredAlwaysInvoked

\* a request answered without any unstructured agent: the configured type is neither
NoAgentForOtherAgentType ==
    (UnstructuredBranchDone /\ agent_type \notin {"simple", "agentic"}) =>
        ~rag_invoked.invoked /\ rag_response_text = ""

\* the assistant message of the request is in the message store
AssistantMessageStored ==
    \E m \in messages :
        /\ m.id = clock - 1
        /\ m.chat_id = CHAT
        /\ m.role = "assistant"
        /\ m.content = final_response

AgentConstructed == StructuredBranchDone /\ ag_pc = "returned"

\* the loader loaded the file of the document at position i into a table of the store
DocLoaded(i) ==
    \E j \in DOMAIN loaded :
        /\ loaded[j].path = "/tmp/csv_agent/" \o PROJECT \o "/" \o project_docs[i].filename
        /\ \E t \in tables : t.name = loaded[j].table_name

\* C20: every document send_message classifies as structured and downloads is loaded by
\* the TableLoader into a table of the store; none is skipped by the loader's own
\* extension test.
C20_StructuredDocsAreLoaded ==
    AgentConstructed => \A i \in StructuredDocs : DocLoaded(i)

\* the same, for the documents whose filename ends in a lowercase extension
LowercaseExtensionDocsAreLoaded ==
    AgentConstructed =>
        \A i \in StructuredDocs :
            (\E ext \in {".csv", ".xlsx", ".xls"} : EndsWith(project_docs[i].filename, ext))
                => DocLoaded(i)

\* ---------------------------------------------------------------- SpecScratch
InitS ==
    /\ InitLoaderVars /\ InitAgentVars /\ InitStoreVars /\ InitSendVars
    /\ InitScratch /\ InitCreateVars /\ InitAuthVars

NextScratch ==
    \/ DownloadSchemaFile
    \/ DownloadStructuredFile
    \/ OpenSchemaFile
    \/ ReadStructuredFile

SpecScratch == InitS /\ [][NextScratch]_vars

\* the local paths a request writes and reads
PathsOf(r) ==
    {SchemaLocalPath(rq_docs[r][i]) : i \in DOMAIN rq_docs[r]}
    \cup {CsvLocalPath(rq_docs[r][i]) : i \in DOMAIN rq_docs[r]}

\* requests in flight at the same time have scratch namespaces of their own
ScratchNamespacesDisjoint ==
    \A r1, r2 \in Requests :
        (r1 # r2 /\ rq_pc[r1] # "done" /\ rq_pc[r2] # "done") => PathsOf(r1) \cap PathsOf(r2) = {}

\* C13: under every interleaving of two requests of one project, the schema and data
\* files a request's agent reads are exactly the files that request downloaded: no
\* other request overwrites a file between its download and its load.
C13_RequestLoadsOwnDownloads ==
    \A r \in Requests :
        \A k \in DOMAIN rq_loaded[r] :
            \E j \in DOMAIN rq_downloaded[r] :
                /\ rq_downloaded[r][j].path = rq_loaded[r][k].path
                /\ rq_downloaded[r][j].content = rq_loaded[r][k].content

\* requests that fetched the same documents read what they downloaded
LoadsOwnDownloadsForEqualDocuments ==
    (\E r1, r2 \in Requests : rq_docs[r1] # rq_docs[r2]) \/ C13_RequestLoadsOwnDownloads

\* ---------------------------------------------------------------- SpecAuth
InitAu ==
    /\ InitLoaderVars /\ InitAgentVars /\ InitStoreVars /\ InitSendVars
    /\ InitScratchVars /\ InitCreateVars /\ InitAuthVars

NextAuth ==
    \/ Tick
    \/ StartAuth
    \/ CheckCache
    \/ ReadCache
    \/ CompareAge
    \/ DeleteExpired
    \/ Authenticate
    \/ UpdateCache

SpecAuth == InitAu /\ [][NextAuth]_vars

\* C19: under every interleaving of calls presenting the same token, no call fails
\* because of token_cache: no call ends in the error a KeyError on the cache gives.
C19_CacheNeverFailsACall ==
    \A t \in Threads : au_result[t] # KeyErrorRaised

\* a call that returns gives the token's clerk id, and a call fails only when the
\* identity service does or when another thread took the entry away
CallsReturnTheClerkId ==
    \A t \in Threads :
        /\ au_result[t].kind = "clerk_id" => au_result[t].clerk_id = SUB
        /\ au_result[t].kind = "error" =>
              \/ au_result[t].detail = "Clerk SDK Failed. Connection error"
              \/ /\ au_result[t] = KeyErrorRaised
                 /\ \E o \in Threads : o # t /\ au_calls[o] > 0

\* the cache holds at most one entry per token, never stamped in the future
CacheWellFormed ==
    /\ \A e1, e2 \in token_cache : e1.token = e2.token => e1 = e2
    /\ \A e \in token_cache : e.timestamp <= now /\ e.clerk_id = SUB

\* ---------------------------------------------------------------- SpecCreate
InitC ==
    /\ InitLoaderVars /\ InitAgentVars /\ InitStoreVars /\ InitSendVars
    /\ InitScratchVars /\ InitCreateVars /\ InitAuthVars

NextCreate ==
    \/ StartCreateProject
    \/ InsertProject
    \/ InsertProjectSettings
    \/ RollbackProject

SpecCreate == InitC /\ [][NextCreate]_vars

\* C14: whenever create_project has returned, with success or with an error, the project
\* row the call inserted, if it is still in the table, has a project_settings row.
C14_NoProjectWithoutSettings ==
    cp_pc = "returned" =>
        \A p \in projects :
            p.id = newly_created_project.id =>
                \E st \in project_settings : st.project_id = p.id

\* the rollback the code does have: after the "rolled back" error the project row is gone
RolledBackWhenSettingsInsertReturnsNoData ==
    (cp_pc = "returned" /\ cp_response.status = 422 /\ newly_created_project.id # 0) =>
        \A p \in projects : p.id # newly_created_project.id

====
